---- MODULE Spec2Model ----
(***************************************************************************)
(* Model of src/turno_analytics.py: TurnoDataAnalyzer, the load /          *)
(* preprocess / analyse / export pipeline over a fleet-telemetry table.    *)
(*                                                                         *)
(* Encoding.  A table is a sequence of rows; a row is a record with one    *)
(* field per column.  Numeric cells are integers, battery charge is held   *)
(* in tenths of a percent (20.1 % is 201).  A null cell (pandas NaN) is    *)
(* NaN in a numeric column and "NaN" in a text column; a column the table  *)
(* does not have is Absent / "absent".  The pandas routines the script     *)
(* calls (drop_duplicates, median, fillna, to_datetime, cut, groupby) are  *)
(* modelled by what they compute.                                          *)
(***************************************************************************)
EXTENDS Integers, Sequences, FiniteSets, TLC

(* ---------------------------- bounds ----------------------------------- *)
MaxRows == 3        \* rows of a general input file
MaxLow == 2         \* low-charge rows of a fleet-shaped input file
MaxHigh == 10       \* high-charge rows of a fleet-shaped input file
MaxCutIn == 1010    \* largest value handed to the bucketing routine

(* ---------------------------- cell values ------------------------------ *)
NaN == -1
Absent == -2

Vins == {"V1", "V2", "NaN"}
Days == {29, 30}
Charges == {NaN, 100, 500}
LowCharges == {0, 299}
HighCharges == {300, 500}

(* ---------------------------- load_data -------------------------------- *)
expected_columns ==
    <<"vin", "yearr", "mmm", "ddd", "hr", "half_hour",
      "avg_lat", "avg_long", "avg_bat_charge">>

ExpectedSet == {expected_columns[i] : i \in 1..Len(expected_columns)}

missing_columns(cols) ==
    SelectSeq(expected_columns, LAMBDA col : col \notin cols)

(* ---------------------------- pandas helpers --------------------------- *)
RECURSIVE DropDup(_, _)
DropDup(s, seen) ==
    IF s = <<>> THEN <<>>
    ELSE IF Head(s) \in seen THEN DropDup(Tail(s), seen)
    ELSE <<Head(s)>> \o DropDup(Tail(s), seen \cup {Head(s)})

\* a deduplication that removes one duplicate row per pass
drop_one_duplicate(rows) ==
    LET dups == {i \in 1..Len(rows) : \E j \in 1..(i - 1) : rows[j] = rows[i]}
        d == CHOOSE i \in dups : \A k \in dups : i <= k
    IN  IF dups = {} THEN rows
        ELSE [i \in 1..(Len(rows) - 1) |-> IF i < d THEN rows[i] ELSE rows[i + 1]]

\* DataFrame.drop_duplicates(): keep the first of every group of equal rows
\* (null cells compare equal to null cells).
drop_duplicates(rows) == DropDup(rows, {})

Column(rows, col) == [i \in 1..Len(rows) |-> rows[i][col]]

NotNull(xs) == SelectSeq(xs, LAMBDA x : x # NaN)

\* Series.isnull().sum()
NullCount(rows, col) == Len(rows) - Len(NotNull(Column(rows, col)))

\* Series.median(): nulls skipped; middle value, or the mean of the two
\* middle values; NaN when there is no non-null value.  (The charges of
\* Charges are even numbers of tenths, so the mean of two is exact.)
median(xs) ==
    LET s == SortSeq(NotNull(xs), LAMBDA a, b : a < b)
        n == Len(s)
    IN  IF n = 0 THEN NaN
        ELSE IF n % 2 = 1 THEN s[(n + 1) \div 2]
        ELSE (s[n \div 2] + s[n \div 2 + 1]) \div 2

\* Series.fillna(v): a null cell takes v (filling with NaN changes nothing).
fillna(rows, col, v) ==
    [i \in 1..Len(rows) |->
        IF rows[i][col] = NaN THEN [rows[i] EXCEPT ![col] = v] ELSE rows[i]]

IsLeap(y) == (y % 4 = 0 /\ y % 100 # 0) \/ y % 400 = 0

DaysInMonth(y, m) ==
    IF m = 2 THEN (IF IsLeap(y) THEN 29 ELSE 28)
    ELSE IF m \in {4, 6, 9, 11} THEN 30 ELSE 31

\* pd.to_datetime over year/month/day columns raises unless every row is a
\* calendar date.
ValidDate(r) ==
    /\ r.mmm \in 1..12
    /\ r.ddd \in 1..DaysInMonth(r.yearr, r.mmm)

\* a conversion that gives up only when no row is a calendar date
to_datetime_lenient(rows) == \E i \in 1..Len(rows) : ValidDate(rows[i])

to_datetime_ok(rows) == \A i \in 1..Len(rows) : ValidDate(rows[i])

DateOf(r) == r.yearr * 10000 + r.mmm * 100 + r.ddd

\* ndarray.searchsorted(x, side='left'): number of edges below x.
searchsorted(bins, x) == Cardinality({i \in 1..Len(bins) : bins[i] < x})

\* pd.cut(x, bins, labels, right=True, include_lowest): bin k is
\* (bins[k], bins[k+1]]; include_lowest puts bins[1] itself into bin 1; a
\* value in no bin gets no label.
cut(x, bins, labels, include_lowest) ==
    LET ids == IF include_lowest /\ x = bins[1] THEN 1
               ELSE searchsorted(bins, x)
    IN  IF x = NaN \/ ids = Len(bins) \/ ids = 0 THEN "NaN" ELSE labels[ids]

time_period(hr) ==
    cut(hr, <<0, 6, 12, 18, 24>>,
        <<"Night", "Morning", "Afternoon", "Evening">>, TRUE)

charge_ranges(c) ==
    cut(c, <<0, 200, 400, 600, 800, 1000>>,
        <<"Critical (0-20%)", "Low (20-40%)", "Medium (40-60%)",
          "Good (60-80%)", "Full (80-100%)">>, FALSE)

(* ---------------------------- input files ------------------------------ *)
Row(v, d, h, lat, c) ==
    [vin |-> v, yearr |-> 2024, mmm |-> 2, ddd |-> d, hr |-> h,
     half_hour |-> 0, avg_lat |-> lat, avg_long |-> 77,
     avg_bat_charge |-> c, date |-> Absent, time_period |-> "absent"]

RowDomain == {Row(v, d, 6, 12, c) : v \in Vins, d \in Days, c \in Charges}

Without(r, col) ==
    [r EXCEPT ![col] = IF col = "vin" THEN "absent" ELSE Absent]

\* a rows of charge lo at hour 6 followed by b rows of charge hi at hour 18,
\* every row at its own latitude
FleetRows(a, lo, b, hi) ==
    [i \in 1..(a + b) |->
        IF i <= a THEN Row("V1", 29, 6, i, lo) ELSE Row("V2", 29, 18, i, hi)]

SeqsUpTo(S, n) == UNION {[1..k -> S] : k \in 1..n}

GeneralFiles ==
    {[kind |-> "ok", cols |-> ExpectedSet, rows |-> rs] :
        rs \in SeqsUpTo(RowDomain, MaxRows)}

FleetFiles ==
    {[kind |-> "ok", cols |-> ExpectedSet, rows |-> FleetRows(a, lo, b, hi)] :
        a \in 0..MaxLow, lo \in LowCharges, b \in 1..MaxHigh, hi \in HighCharges}

ShortFiles ==
    {[kind |-> "ok", cols |-> ExpectedSet \ {col},
      rows |-> [i \in 1..Len(rs) |-> Without(rs[i], col)]] :
        col \in ExpectedSet, rs \in SeqsUpTo(RowDomain, 1)}

BrokenFiles ==
    {[kind |-> k, cols |-> {}, rows |-> <<>>] : k \in {"missing", "garbled"}}

Files == GeneralFiles \cup FleetFiles \cup ShortFiles \cup BrokenFiles

(* ---------------------------- state ------------------------------------ *)
VARIABLES
    file,           \* the input file named by self.filename
    df,             \* self.df
    pc,             \* position of the main program
    load_result,    \* what load_data returned
    median_charge,  \* the fill value of preprocess_data
    ran,            \* the stages of run_complete_analysis entered so far
    artifacts,      \* the output files written so far
    vehicle_stats,  \* table returned by vehicle_analysis
    charge_distribution,  \* table returned by battery_analysis
    insights,       \* what generate_insights computed and printed
    vehicle_summary,      \* content of turno_vehicle_summary.csv
    hourly_summary,       \* content of turno_hourly_summary.csv
    cutIn, cutKind, cutOut   \* one call of the bucketing routine

vars == <<file, df, pc, load_result, median_charge, ran, artifacts,
          vehicle_stats, charge_distribution, insights, vehicle_summary,
          hourly_summary, cutIn, cutKind, cutOut>>

results == <<vehicle_stats, charge_distribution, insights, vehicle_summary,
             hourly_summary>>

None == [none |-> TRUE, cols |-> {}, rows |-> <<>>]

Frame(cols, rows) == [none |-> FALSE, cols |-> cols, rows |-> rows]

cutVars == <<cutIn, cutKind, cutOut>>

NoInsights == [emitted |-> {}, low_battery_records |-> 0, total_records |-> 0]

\* __init__: filename stored, self.df = None, load_data about to run
Init ==
    /\ file \in Files
    /\ df = None
    /\ pc = "load_data"
    /\ load_result = "pending"
    /\ median_charge = NaN
    /\ ran = {}
    /\ artifacts = {}
    /\ vehicle_stats = {}
    /\ charge_distribution = {}
    /\ insights = NoInsights
    /\ vehicle_summary = {}
    /\ hourly_summary = {}
    /\ cutIn = 0 /\ cutKind = "none" /\ cutOut = "none"

(* ---------------------------- load_data -------------------------------- *)
\* read_csv raises FileNotFoundError: caught, False returned, self.df is
\* still None.
LoadFileNotFound ==
    /\ pc = "load_data"
    /\ file.kind = "missing"
    /\ load_result' = "False"
    /\ pc' = "constructed"
    /\ UNCHANGED <<file, df, median_charge, ran, artifacts, results, cutVars>>

\* read_csv raises a parse error: caught by except Exception, False
\* returned, self.df is still None.
LoadError ==
    /\ pc = "load_data"
    /\ file.kind = "garbled"
    /\ load_result' = "False"
    /\ pc' = "constructed"
    /\ UNCHANGED <<file, df, median_charge, ran, artifacts, results, cutVars>>

\* read_csv succeeds and assigns self.df; a missing column returns False.
LoadReads ==
    /\ pc = "load_data"
    /\ file.kind = "ok"
    /\ df' = Frame(file.cols, file.rows)
    /\ IF missing_columns(file.cols) # <<>>
       THEN load_result' = "False" /\ pc' = "constructed"
       ELSE load_result' = load_result /\ pc' = "drop_duplicates"
    /\ UNCHANGED <<file, median_charge, ran, artifacts, results, cutVars>>

(* ---------------------------- preprocess_data -------------------------- *)
WithDate(rows) ==
    [i \in 1..Len(rows) |-> [rows[i] EXCEPT !.date = DateOf(rows[i])]]

WithTimePeriod(rows) ==
    [i \in 1..Len(rows) |->
        [rows[i] EXCEPT !.time_period = time_period(rows[i].hr)]]

DropDuplicates ==
    /\ pc = "drop_duplicates"
    /\ df' = [df EXCEPT !.rows = drop_duplicates(df.rows)]
    /\ pc' = "fillna"
    /\ UNCHANGED <<file, load_result, median_charge, ran, artifacts, results, cutVars>>

\* missing_data.sum() > 0 and missing_data['avg_bat_charge'] > 0; the
\* in-place fill through self.df['avg_bat_charge'] reaches self.df (pandas
\* without copy-on-write, the releases whose warning line 7 silences)
FillMissing ==
    /\ pc = "fillna"
    /\ IF NullCount(df.rows, "avg_bat_charge") > 0
       THEN LET m == median(Column(df.rows, "avg_bat_charge"))
            IN  /\ median_charge' = m
                /\ df' = [df EXCEPT !.rows = fillna(df.rows, "avg_bat_charge", m)]
       ELSE UNCHANGED <<df, median_charge>>
    /\ pc' = "to_datetime"
    /\ UNCHANGED <<file, load_result, ran, artifacts, results, cutVars>>

\* try: df['date'] = to_datetime(...)  except: pass
CreateDate ==
    /\ pc = "to_datetime"
    /\ IF to_datetime_ok(df.rows)
       THEN df' = [df EXCEPT !.cols = @ \cup {"date"},
                             !.rows = WithDate(df.rows)]
       ELSE df' = df
    /\ pc' = "cut"
    /\ UNCHANGED <<file, load_result, median_charge, ran, artifacts, results, cutVars>>

\* df['time_period'] = pd.cut(df['hr'], ...); preprocess_data returns and
\* load_data returns True
CreateTimePeriod ==
    /\ pc = "cut"
    /\ df' = [df EXCEPT !.cols = @ \cup {"time_period"},
                          !.rows = WithTimePeriod(df.rows)]
    /\ load_result' = "True"
    /\ pc' = "constructed"
    /\ UNCHANGED <<file, median_charge, ran, artifacts, results, cutVars>>

(* ---------------------------- aggregation helpers ---------------------- *)
Null(col) == IF col \in {"vin", "time_period"} THEN "NaN" ELSE NaN

\* groupby(col): one group per non-null key (rows with a null key are left
\* out, dropna=True)
GroupKeys(rows, col) == {rows[i][col] : i \in 1..Len(rows)} \ {Null(col)}

Group(rows, col, k) == {i \in 1..Len(rows) : rows[i][col] = k}

\* the 'count' aggregate: non-null cells of col within the group
count(rows, g, col) == Cardinality({i \in g : rows[i][col] # Null(col)})

\* the 'nunique' aggregate
nunique(rows, g, col) == Cardinality({rows[i][col] : i \in g} \ {Null(col)})

RECURSIVE SumSeq(_)
SumSeq(xs) == IF xs = <<>> THEN 0 ELSE Head(xs) + SumSeq(Tail(xs))

Squares(xs) == [i \in 1..Len(xs) |-> xs[i] * xs[i]]

\* Series.std() > t: sample standard deviation (ddof=1) of the non-null
\* values; NaN, which compares False, with fewer than two values.
\* std^2 = (n*sum(x^2) - sum(x)^2) / (n*(n-1))
std_above(xs, t) ==
    LET v == NotNull(xs)
        n == Len(v)
    IN  /\ n >= 2
        /\ n * SumSeq(Squares(v)) - SumSeq(v) * SumSeq(v) > t * t * n * (n - 1)

(* ---------------------------- run_complete_analysis -------------------- *)
low_battery_threshold == 300
std_threshold == 250

\* the columns each stage reads; reading a column the table lacks raises
\* KeyError
StageColumns(stage) ==
    CASE stage = "basic_statistics" ->
           {"vin", "yearr", "hr", "avg_bat_charge", "avg_lat", "avg_long"}
      [] stage = "vehicle_analysis" ->
           {"vin", "avg_bat_charge", "avg_lat", "avg_long"}
      [] stage = "temporal_analysis" -> {"hr", "avg_bat_charge", "vin"}
      [] stage = "geographic_analysis" ->
           {"avg_lat", "avg_long", "avg_bat_charge", "vin"}
      [] stage = "battery_analysis" -> {"avg_bat_charge", "hr"}
      [] stage = "create_visualizations" ->
           {"avg_bat_charge", "hr", "avg_long", "avg_lat", "vin"}
      [] stage = "generate_insights" -> {"avg_bat_charge", "hr", "vin"}
      [] stage = "vehicle_summary" ->
           {"vin", "avg_bat_charge", "avg_lat", "avg_long"}
      [] stage = "hourly_summary" -> {"hr", "avg_bat_charge", "vin"}

KeyError(stage) == ~(StageColumns(stage) \subseteq df.cols)

\* if self.df is None: return None
RunCompleteAnalysis ==
    /\ pc = "constructed"
    /\ pc' = IF df.none THEN "returned_none" ELSE "basic_statistics"
    /\ UNCHANGED <<file, df, load_result, median_charge, ran, artifacts,
                   results, cutVars>>

\* idxmax of the per-hour record counts raises on a table without rows
BasicStatistics ==
    /\ pc = "basic_statistics"
    /\ ran' = ran \cup {"basic_statistics"}
    /\ pc' = IF KeyError("basic_statistics") \/ Len(df.rows) = 0
             THEN "raised" ELSE "vehicle_analysis"
    /\ UNCHANGED <<file, df, load_result, median_charge, artifacts, results,
                   cutVars>>

\* groupby('vin').agg(...): records_count is the 'count' of avg_bat_charge
VehicleStats(rows) ==
    {[vin |-> v,
      records_count |-> count(rows, Group(rows, "vin", v), "avg_bat_charge")] :
        v \in GroupKeys(rows, "vin")}

\* idxmax of records_count raises when there is no group (idxmax / idxmin
\* of an all-NaN column return NaN and do not raise)
VehicleAnalysis ==
    /\ pc = "vehicle_analysis"
    /\ ran' = ran \cup {"vehicle_analysis"}
    /\ IF KeyError("vehicle_analysis") \/ GroupKeys(df.rows, "vin") = {}
       THEN pc' = "raised" /\ vehicle_stats' = vehicle_stats
       ELSE pc' = "temporal_analysis" /\ vehicle_stats' = VehicleStats(df.rows)
    /\ UNCHANGED <<file, df, load_result, median_charge, artifacts,
                   charge_distribution, insights, vehicle_summary,
                   hourly_summary, cutVars>>

\* the time-period table is built only if the column exists
TemporalAnalysis ==
    /\ pc = "temporal_analysis"
    /\ ran' = ran \cup {"temporal_analysis"}
    /\ pc' = IF KeyError("temporal_analysis")
             THEN "raised" ELSE "geographic_analysis"
    /\ UNCHANGED <<file, df, load_result, median_charge, artifacts, results,
                   cutVars>>

GeographicAnalysis ==
    /\ pc = "geographic_analysis"
    /\ ran' = ran \cup {"geographic_analysis"}
    /\ pc' = IF KeyError("geographic_analysis")
             THEN "raised" ELSE "battery_analysis"
    /\ UNCHANGED <<file, df, load_result, median_charge, artifacts, results,
                   cutVars>>

RangeLabels ==
    {"Critical (0-20%)", "Low (20-40%)", "Medium (40-60%)", "Good (60-80%)",
     "Full (80-100%)"}

\* charge_ranges.value_counts(): rows per range, rows without a range are
\* not counted
ChargeDistribution(rows) ==
    {[range |-> l,
      count |-> Cardinality({i \in 1..Len(rows) :
                               charge_ranges(rows[i].avg_bat_charge) = l})] :
        l \in RangeLabels}

\* battery_by_hour[battery_by_hour.idxmax()] raises KeyError when every
\* hourly mean is NaN
BatteryAnalysis ==
    /\ pc = "battery_analysis"
    /\ ran' = ran \cup {"battery_analysis"}
    /\ IF \/ KeyError("battery_analysis")
          \/ \A i \in 1..Len(df.rows) :
                df.rows[i].hr = NaN \/ df.rows[i].avg_bat_charge = NaN
       THEN pc' = "raised" /\ charge_distribution' = charge_distribution
       ELSE /\ pc' = "create_visualizations"
            /\ charge_distribution' = ChargeDistribution(df.rows)
    /\ UNCHANGED <<file, df, load_result, median_charge, artifacts,
                   vehicle_stats, insights, vehicle_summary, hourly_summary,
                   cutVars>>

\* plt.savefig('turno_analysis_visualizations.png')
CreateVisualizations ==
    /\ pc = "create_visualizations"
    /\ ran' = ran \cup {"create_visualizations"}
    /\ IF KeyError("create_visualizations")
       THEN pc' = "raised" /\ artifacts' = artifacts
       ELSE /\ pc' = "generate_insights"
            /\ artifacts' = artifacts \cup {"turno_analysis_visualizations.png"}
    /\ UNCHANGED <<file, df, load_result, median_charge, results, cutVars>>

\* len(df[df['avg_bat_charge'] < low_battery_threshold])
low_battery_records(rows) ==
    Cardinality({i \in 1..Len(rows) :
                   /\ rows[i].avg_bat_charge # NaN
                   /\ rows[i].avg_bat_charge < low_battery_threshold})

\* the threshold test with >= in place of >
HighPriorityAtLeast(rows) == 10 * low_battery_records(rows) >= Len(rows)

\* low_battery_records > total_records * 0.1
HighPriority(rows) == 10 * low_battery_records(rows) > Len(rows)

\* battery_std > 25
MediumPriority(rows) ==
    std_above(Column(rows, "avg_bat_charge"), std_threshold)

Recommendations(rows) ==
    (IF HighPriority(rows) THEN {"HIGH PRIORITY"} ELSE {})
    \cup (IF MediumPriority(rows) THEN {"MEDIUM PRIORITY"} ELSE {})
    \cup {"OPERATIONAL INSIGHTS"}

\* value_counts().idxmax() raises on a table without rows, before anything
\* is recommended; vehicle_efficiency.index[-1] raises after the
\* recommendations when no row has a vehicle id
GenerateInsights ==
    /\ pc = "generate_insights"
    /\ ran' = ran \cup {"generate_insights"}
    /\ IF KeyError("generate_insights") \/ Len(df.rows) = 0
       THEN pc' = "raised" /\ insights' = insights
       ELSE /\ insights' =
                 [emitted |-> Recommendations(df.rows),
                  low_battery_records |-> low_battery_records(df.rows),
                  total_records |-> Len(df.rows)]
            /\ pc' = IF GroupKeys(df.rows, "vin") = {}
                     THEN "raised" ELSE "export_summary_report"
    /\ UNCHANGED <<file, df, load_result, median_charge, artifacts,
                   vehicle_stats, charge_distribution, vehicle_summary,
                   hourly_summary, cutVars>>

\* groupby('vin').agg(...): total_records is the 'count' of avg_bat_charge
VehicleSummary(rows) ==
    {[vin |-> v,
      total_records |-> count(rows, Group(rows, "vin", v), "avg_bat_charge")] :
        v \in GroupKeys(rows, "vin")}

\* groupby('hr').agg(...): total_records and unique_vehicles are the
\* 'count' and 'nunique' of vin
HourlySummary(rows) ==
    {[hr |-> h,
      total_records |-> count(rows, Group(rows, "hr", h), "vin"),
      unique_vehicles |-> nunique(rows, Group(rows, "hr", h), "vin")] :
        h \in GroupKeys(rows, "hr")}

\* the per-vehicle file is written before the per-hour table is built
ExportSummaryReport ==
    /\ pc = "export_summary_report"
    /\ ran' = ran \cup {"export_summary_report"}
    /\ IF KeyError("vehicle_summary")
       THEN /\ pc' = "raised"
            /\ UNCHANGED <<artifacts, vehicle_summary, hourly_summary>>
       ELSE IF KeyError("hourly_summary")
       THEN /\ pc' = "raised"
            /\ vehicle_summary' = VehicleSummary(df.rows)
            /\ artifacts' = artifacts \cup {"turno_vehicle_summary.csv"}
            /\ UNCHANGED hourly_summary
       ELSE /\ pc' = "done"
            /\ vehicle_summary' = VehicleSummary(df.rows)
            /\ hourly_summary' = HourlySummary(df.rows)
            /\ artifacts' = artifacts \cup {"turno_vehicle_summary.csv",
                                            "turno_hourly_summary.csv"}
    /\ UNCHANGED <<file, df, load_result, median_charge, vehicle_stats,
                   charge_distribution, insights, cutVars>>

Next ==
    \/ LoadFileNotFound
    \/ LoadError
    \/ LoadReads
    \/ DropDuplicates
    \/ FillMissing
    \/ CreateDate
    \/ CreateTimePeriod
    \/ RunCompleteAnalysis
    \/ BasicStatistics
    \/ VehicleAnalysis
    \/ TemporalAnalysis
    \/ GeographicAnalysis
    \/ BatteryAnalysis
    \/ CreateVisualizations
    \/ GenerateInsights
    \/ ExportSummaryReport

Spec == Init /\ [][Next]_vars

(* ---------------------------- the bucketing routine alone -------------- *)
InitCut ==
    /\ file = [kind |-> "missing", cols |-> {}, rows |-> <<>>]
    /\ df = None
    /\ pc = "load_data"
    /\ load_result = "pending"
    /\ median_charge = NaN
    /\ ran = {}
    /\ artifacts = {}
    /\ vehicle_stats = {}
    /\ charge_distribution = {}
    /\ insights = NoInsights
    /\ vehicle_summary = {}
    /\ hourly_summary = {}
    /\ cutIn \in 0..MaxCutIn
    /\ cutKind = "none"
    /\ cutOut = "none"

pipelineVars ==
    <<file, df, pc, load_result, median_charge, ran, artifacts, results>>

\* pd.cut(self.df['hr'], ...) of preprocess_data on one hour value
CutHour ==
    /\ cutKind = "none"
    /\ cutKind' = "hr"
    /\ cutOut' = time_period(cutIn)
    /\ UNCHANGED <<cutIn, pipelineVars>>

\* pd.cut(self.df['avg_bat_charge'], ...) of battery_analysis on one charge
\* value, in tenths of a percent
CutCharge ==
    /\ cutKind = "none"
    /\ cutKind' = "avg_bat_charge"
    /\ cutOut' = charge_ranges(cutIn)
    /\ UNCHANGED <<cutIn, pipelineVars>>

NextCut == CutHour \/ CutCharge

SpecCut == InitCut /\ [][NextCut]_vars

(* ---------------------------- stages called directly ------------------ *)
\* The stages are public methods: after construction a caller may invoke
\* any of them, in any order and any number of times, and may call
\* run_complete_analysis again.  A call that raises returns to the caller.
MaxDirectRows == 2      \* rows of an input file of the direct-call runs

DirectRowDomain ==
    {Row(v, 29, 6, 12, c) : v \in {"V1", "NaN"}, c \in Charges}

DirectFiles ==
    {[kind |-> "ok", cols |-> ExpectedSet, rows |-> rs] :
        rs \in SeqsUpTo(DirectRowDomain, MaxDirectRows)}
    \cup {[kind |-> "ok", cols |-> ExpectedSet, rows |-> FleetRows(1, 0, 3, 500)]}
    \cup {f \in ShortFiles : f.rows[1].ddd # 30 /\ f.rows[1].vin # "V2"}
    \cup BrokenFiles

InitDirect ==
    /\ file \in DirectFiles
    /\ df = None
    /\ pc = "load_data"
    /\ load_result = "pending"
    /\ median_charge = NaN
    /\ ran = {}
    /\ artifacts = {}
    /\ vehicle_stats = {}
    /\ charge_distribution = {}
    /\ insights = NoInsights
    /\ vehicle_summary = {}
    /\ hourly_summary = {}
    /\ cutIn = 0 /\ cutKind = "none" /\ cutOut = "none"

\* the caller holds the constructed analyzer and no pipeline run is under way
Idle == pc \in {"constructed", "done"}

\* run_complete_analysis called again after a complete run
RunAgain ==
    /\ pc = "done"
    /\ pc' = "basic_statistics"
    /\ UNCHANGED <<file, df, load_result, median_charge, ran, artifacts,
                   results, cutVars>>

CallBasicStatistics ==
    /\ Idle
    /\ ran' = ran \cup {"basic_statistics"}
    /\ UNCHANGED <<file, df, pc, load_result, median_charge, artifacts,
                   results, cutVars>>

CallVehicleAnalysis ==
    /\ Idle
    /\ ran' = ran \cup {"vehicle_analysis"}
    /\ vehicle_stats' =
          IF KeyError("vehicle_analysis") \/ GroupKeys(df.rows, "vin") = {}
          THEN vehicle_stats ELSE VehicleStats(df.rows)
    /\ UNCHANGED <<file, df, pc, load_result, median_charge, artifacts,
                   charge_distribution, insights, vehicle_summary,
                   hourly_summary, cutVars>>

CallTemporalAnalysis ==
    /\ Idle
    /\ ran' = ran \cup {"temporal_analysis"}
    /\ UNCHANGED <<file, df, pc, load_result, median_charge, artifacts,
                   results, cutVars>>

CallGeographicAnalysis ==
    /\ Idle
    /\ ran' = ran \cup {"geographic_analysis"}
    /\ UNCHANGED <<file, df, pc, load_result, median_charge, artifacts,
                   results, cutVars>>

\* a battery_analysis that keeps charge_ranges as a column of self.df
CallBatteryAnalysisStoring ==
    /\ Idle
    /\ ran' = ran \cup {"battery_analysis"}
    /\ df' = IF KeyError("battery_analysis") THEN df
             ELSE [df EXCEPT !.cols = @ \cup {"charge_range"}]
    /\ UNCHANGED <<file, pc, load_result, median_charge, artifacts,
                   results, cutVars>>

\* charge_ranges and battery_by_hour are locals; self.df is only read
CallBatteryAnalysis ==
    /\ Idle
    /\ ran' = ran \cup {"battery_analysis"}
    /\ charge_distribution' =
          IF \/ KeyError("battery_analysis")
             \/ \A i \in 1..Len(df.rows) :
                   df.rows[i].hr = NaN \/ df.rows[i].avg_bat_charge = NaN
          THEN charge_distribution ELSE ChargeDistribution(df.rows)
    /\ UNCHANGED <<file, df, pc, load_result, median_charge, artifacts,
                   vehicle_stats, insights, vehicle_summary, hourly_summary,
                   cutVars>>

CallCreateVisualizations ==
    /\ Idle
    /\ ran' = ran \cup {"create_visualizations"}
    /\ artifacts' =
          IF KeyError("create_visualizations") THEN artifacts
          ELSE artifacts \cup {"turno_analysis_visualizations.png"}
    /\ UNCHANGED <<file, df, pc, load_result, median_charge, results, cutVars>>

CallGenerateInsights ==
    /\ Idle
    /\ ran' = ran \cup {"generate_insights"}
    /\ insights' =
          IF KeyError("generate_insights") \/ Len(df.rows) = 0 THEN insights
          ELSE [emitted |-> Recommendations(df.rows),
                low_battery_records |-> low_battery_records(df.rows),
                total_records |-> Len(df.rows)]
    /\ UNCHANGED <<file, df, pc, load_result, median_charge, artifacts,
                   vehicle_stats, charge_distribution, vehicle_summary,
                   hourly_summary, cutVars>>

CallExportSummaryReport ==
    /\ Idle
    /\ ran' = ran \cup {"export_summary_report"}
    /\ IF KeyError("vehicle_summary")
       THEN UNCHANGED <<artifacts, vehicle_summary, hourly_summary>>
       ELSE IF KeyError("hourly_summary")
       THEN /\ vehicle_summary' = VehicleSummary(df.rows)
            /\ artifacts' = artifacts \cup {"turno_vehicle_summary.csv"}
            /\ UNCHANGED hourly_summary
       ELSE /\ vehicle_summary' = VehicleSummary(df.rows)
            /\ hourly_summary' = HourlySummary(df.rows)
            /\ artifacts' = artifacts \cup {"turno_vehicle_summary.csv",
                                            "turno_hourly_summary.csv"}
    /\ UNCHANGED <<file, df, pc, load_result, median_charge, vehicle_stats,
                   charge_distribution, insights, cutVars>>

NextDirect ==
    \/ LoadFileNotFound
    \/ LoadError
    \/ LoadReads
    \/ DropDuplicates
    \/ FillMissing
    \/ CreateDate
    \/ CreateTimePeriod
    \/ RunCompleteAnalysis
    \/ BasicStatistics
    \/ VehicleAnalysis
    \/ TemporalAnalysis
    \/ GeographicAnalysis
    \/ BatteryAnalysis
    \/ CreateVisualizations
    \/ GenerateInsights
    \/ ExportSummaryReport
    \/ RunAgain
    \/ CallBasicStatistics
    \/ CallVehicleAnalysis
    \/ CallTemporalAnalysis
    \/ CallGeographicAnalysis
    \/ CallBatteryAnalysis
    \/ CallCreateVisualizations
    \/ CallGenerateInsights
    \/ CallExportSummaryReport

SpecDirect == InitDirect /\ [][NextDirect]_vars

(* ======================================================================= *)
(* Properties                                                              *)
(* ======================================================================= *)
RECURSIVE SumFn(_, _)
SumFn(f, S) ==
    IF S = {} THEN 0
    ELSE LET x == CHOOSE y \in S : TRUE IN f[x] + SumFn(f, S \ {x})

LoadedOk == load_result = "True"

LacksColumn == file.kind = "ok" /\ ~(ExpectedSet \subseteq file.cols)

AggregatorStages ==
    {"basic_statistics", "vehicle_analysis", "temporal_analysis",
     "geographic_analysis", "battery_analysis"}

\* C1: when the input file parses but lacks a required column, load_data
\* returns False, and run_complete_analysis afterwards enters no aggregator
\* and writes no chart, no per-vehicle CSV and no per-hour CSV.
C1_MissingColumnStopsRun ==
    (LacksColumn /\ pc # "load_data") =>
        /\ load_result = "False"
        /\ ran \cap AggregatorStages = {}
        /\ artifacts = {}

ClaimedPeriod(h) ==
    IF h < 6 THEN "Night"
    ELSE IF h < 12 THEN "Morning"
    ELSE IF h < 18 THEN "Afternoon" ELSE "Evening"

\* C2: every hour 0..23 is labelled by the half-open ranges [0,6) Night,
\* [6,12) Morning, [12,18) Afternoon, [18,24] Evening.
C2_HourHalfOpenBuckets ==
    (cutKind = "hr" /\ cutIn \in 0..23) => cutOut = ClaimedPeriod(cutIn)

\* C3: every charge 0.0..100.0 (in tenths) falls in one of the five ranges;
\* 0.0 and 20.0 are Critical, 20.1 is Low, 100.0 is Full.
C3_ChargeBucketsCoverRange ==
    (cutKind = "avg_bat_charge" /\ cutIn \in 0..1000) =>
        /\ cutOut \in RangeLabels
        /\ cutIn \in {0, 200} => cutOut = "Critical (0-20%)"
        /\ cutIn = 201 => cutOut = "Low (20-40%)"
        /\ cutIn = 1000 => cutOut = "Full (80-100%)"

AfterVehicleAnalysis ==
    pc \in {"temporal_analysis", "geographic_analysis", "battery_analysis",
            "create_visualizations", "generate_insights",
            "export_summary_report", "done"}

\* C4: for a successfully loaded dataset, records_count of vehicle_analysis
\* summed over the vehicles, and total_records of the exported per-vehicle
\* summary summed over the vehicles, equal the number of rows.
C4_VehicleCountsSumToRows ==
    /\ (LoadedOk /\ AfterVehicleAnalysis) =>
          SumFn([r \in vehicle_stats |-> r.records_count], vehicle_stats)
              = Len(df.rows)
    /\ (LoadedOk /\ pc = "done") =>
          SumFn([r \in vehicle_summary |-> r.total_records], vehicle_summary)
              = Len(df.rows)

AfterFill == pc \in {"to_datetime", "cut"} \/ LoadedOk

\* C5: after preprocessing the charge column has no null; the rows that
\* were null hold the median of the non-null charges of the deduplicated
\* table, and the other rows keep their charge.
C5_MedianFillLeavesNoNull ==
    AfterFill =>
        LET pre == drop_duplicates(file.rows)
            m == median(Column(pre, "avg_bat_charge"))
        IN  /\ Len(df.rows) = Len(pre)
            /\ \A i \in 1..Len(df.rows) :
                  /\ df.rows[i].avg_bat_charge # NaN
                  /\ pre[i].avg_bat_charge = NaN =>
                        df.rows[i].avg_bat_charge = m
                  /\ pre[i].avg_bat_charge # NaN =>
                        df.rows[i].avg_bat_charge = pre[i].avg_bat_charge

InputCells(r) == [c \in ExpectedSet |-> r[c]]

\* C6: after preprocessing no two rows agree on all 9 input columns.
C6_NoDuplicateRowsAfterPreprocess ==
    LoadedOk =>
        \A i, j \in 1..Len(df.rows) :
            i # j => InputCells(df.rows[i]) # InputCells(df.rows[j])

Charge(i) == df.rows[i].avg_bat_charge

Known == {i \in 1..Len(df.rows) : Charge(i) >= 0}

Pairs == {p \in Known \X Known : p[1] < p[2]}

\* sum over the pairs of the squared differences: n*(n-1) times the sample
\* variance
PairSquares ==
    SumFn([p \in Pairs |-> (Charge(p[1]) - Charge(p[2])) * (Charge(p[1]) - Charge(p[2]))],
          Pairs)

InsightsReported == insights.total_records > 0

\* C7: generate_insights recommends HIGH PRIORITY exactly when the rows
\* with charge below 30 are more than 10% of the rows, MEDIUM PRIORITY
\* exactly when the standard deviation of the charge exceeds 25, and the
\* operational insights always.
C7_InsightThresholds ==
    InsightsReported =>
        LET n == Len(df.rows)
            low == Cardinality({i \in Known : Charge(i) < 300})
            k == Cardinality(Known)
        IN  /\ ("HIGH PRIORITY" \in insights.emitted) <=> (100 * low > 10 * n)
            /\ ("MEDIUM PRIORITY" \in insights.emitted)
                  <=> (PairSquares > 62500 * k * (k - 1))
            /\ "OPERATIONAL INSIGHTS" \in insights.emitted

\* ten rows, exactly one below 30 %: exactly 10 %, so no recommendation
C7_Witness ==
    /\ insights.total_records = 10
    /\ insights.low_battery_records = 1
    /\ insights.emitted = {"OPERATIONAL INSIGHTS"}

\* one row at 0 % and three at 50 %: the deviation is exactly 25
C7_WitnessDeviation ==
    /\ InsightsReported
    /\ Cardinality(Known) = 4
    /\ PairSquares = 62500 * 12
    /\ "MEDIUM PRIORITY" \notin insights.emitted

Failed == load_result = "False" \/ pc = "raised"

\* C8: once a stage has failed, no later stage executes and no further
\* output artifact is written.
C8_FailureHaltsRun ==
    [][Failed => (ran' = ran /\ artifacts' = artifacts)]_vars

\* C9: removing duplicates from the deduplicated table removes nothing: the
\* rows and the row count stay the same.
C9_DedupIdempotent ==
    pc = "fillna" =>
        /\ drop_duplicates(df.rows) = df.rows
        /\ Len(drop_duplicates(df.rows)) = Len(df.rows)

C9_Witness ==
    /\ pc = "fillna"
    /\ Len(file.rows) = 3
    /\ Len(df.rows) = 1

AfterDate == pc = "cut" \/ LoadedOk

PeriodLabels == {"Night", "Morning", "Afternoon", "Evening"}

Healthy ==
    /\ \E i \in 1..Len(df.rows) : df.rows[i].vin # "NaN"
    /\ \E i \in 1..Len(df.rows) : df.rows[i].avg_bat_charge # NaN

\* C10: if one row is not a calendar date no row gets a date and the date
\* column is absent, otherwise every row gets its date; either way load_data
\* returns True, every row gets a time-period label, and the stages of
\* run_complete_analysis do not fail for want of the date column.
C10_DateAllOrNothing ==
    /\ AfterDate =>
          IF \E i \in 1..Len(df.rows) : ~ValidDate(df.rows[i])
          THEN /\ "date" \notin df.cols
               /\ \A i \in 1..Len(df.rows) : df.rows[i].date = Absent
          ELSE /\ "date" \in df.cols
               /\ \A i \in 1..Len(df.rows) : df.rows[i].date = DateOf(df.rows[i])
    /\ (file.kind = "ok" /\ ExpectedSet \subseteq file.cols
          /\ pc \notin {"load_data", "drop_duplicates", "fillna",
                        "to_datetime", "cut"}) => LoadedOk
    /\ LoadedOk =>
          /\ "time_period" \in df.cols
          /\ \A i \in 1..Len(df.rows) : df.rows[i].time_period \in PeriodLabels
    /\ (LoadedOk /\ "date" \notin df.cols /\ Healthy) => pc # "raised"

C10_Witness ==
    /\ pc = "done"
    /\ "date" \notin df.cols
    /\ Len(df.rows) >= 2
    /\ \E i \in 1..Len(df.rows) : ValidDate(df.rows[i])
    /\ artifacts # {}

AllStages ==
    AggregatorStages \cup
    {"create_visualizations", "generate_insights", "export_summary_report"}

\* C11: once preprocessing is done no stage, run directly or by
\* run_complete_analysis, in any order and any number of times, changes the
\* dataset; a result computed again equals the one computed before and a
\* summary file written again gets the same content.
C11_DatasetImmutableAfterPreprocess ==
    [][LoadedOk =>
          /\ df' = df
          /\ vehicle_stats # {} => vehicle_stats' = vehicle_stats
          /\ charge_distribution # {} =>
                charge_distribution' = charge_distribution
          /\ insights # NoInsights => insights' = insights
          /\ "turno_vehicle_summary.csv" \in artifacts =>
                vehicle_summary' = vehicle_summary
          /\ "turno_hourly_summary.csv" \in artifacts =>
                hourly_summary' = hourly_summary
          /\ artifacts \subseteq artifacts']_vars

\* a second pipeline run under way on a table of two rows, after every stage
\* has run and every file has been written
C11_Witness ==
    /\ LoadedOk
    /\ pc = "battery_analysis"
    /\ ran = AllStages
    /\ Cardinality(artifacts) = 3
    /\ vehicle_summary # {}
    /\ Len(df.rows) = 2

====
